---------------------------- MODULE Spec2Model ----------------------------
(***************************************************************************)
(* Model of the streaming layer of flood_agent's web server:                *)
(*   server/websocket_manager.py   WebSocketManager (connect, disconnect,   *)
(*                                 broadcast, get_connection_count)         *)
(*   server/routers/websocket.py   websocket_endpoint                       *)
(*   server/adk_wrapper.py         ADKEventCapture (run_agent,              *)
(*                                 _monitor_tool_progress,                  *)
(*                                 _check_new_outputs,                      *)
(*                                 _check_directory_for_outputs)            *)
(* Every coroutine is cut at its await points: one action per segment that  *)
(* runs without suspension on the asyncio event loop.                       *)
(***************************************************************************)
EXTENDS Integers, Sequences, FiniteSets, TLC

\* ------------------------------------------------------------------ bounds
\* number of broadcast() calls the producer tasks issue in all
MaxEvents == 2
\* number of tool invocations the pipelines make in all
MaxCalls == 2

\* the websocket objects that may ever be opened, the session ids of their
\* URLs, and the tasks that call broadcast()
Conns == {"w1", "w2"}
Sessions == {"s1", "s2"}
Tasks == {"t1", "t2"}
\* the run_agent executions, and the tool names the pipeline may invoke
Runs == {"r1", "r2"}
LongTools == {"segment_flood_area", "get_time_series_water"}
Tools == LongTools \cup {"search_sentinel_images"}
\* number of records the pipeline stream of the run handled record by record
\* yields
MaxRecords == 3

VARIABLES
    \* WebSocketManager.active_connections: session id -> list of websockets
    active,
    \* position of each websocket's endpoint handler
    connPc,
    \* the session id of the URL the websocket was opened on
    connSid,
    \* messages that arrived on each websocket, in arrival order
    received,
    \* websockets on which a send_json raised (acknowledgment or event)
    sendFailed,
    \* per producer task: position in broadcast()
    bpc,
    \* number of broadcast() calls made so far; call number n carries event n
    evCount,
    \* per producer task: arguments of the running broadcast() call
    bsid, bev,
    \* per producer task: index of the list iterator of the for loop
    bidx,
    \* per producer task: websocket the pending send_json is writing to
    bcur,
    \* per producer task: the local list dead_connections
    bdead,
    \* per producer task: the iterated list object is no longer in the table
    borphan,
    \* per producer task: websockets registered since the call started
    bwatch,
    \* what the broadcast() call that returned in the last step did
    retInfo,
    \* <<event, session id>> of the broadcast() calls that found no entry
    dropped,
    \* websockets whose send_json never completes
    stalled

VARIABLES
    \* ADKEventCapture._active_tools: the tool names marked active
    activeTools,
    \* ADKEventCapture._progress_tasks: tool name -> progress task
    progressTasks,
    \* per run_agent execution: position, and the session it broadcasts to
    rpc, rsid,
    \* per run_agent execution: the tool invocation whose record it handles
    rinv,
    \* per run_agent execution: invocations the pipeline has not answered yet
    outstanding,
    \* per tool invocation, in call order: tool name and calling run
    invTool, invRun,
    \* per tool invocation: position and stage of its _monitor_tool_progress
    \* task ("none" when the tool got no task)
    simPc, simStage,
    \* the event handed to ws_manager.broadcast() by the step that led here
    \* (NoEvent after the other steps), with the session id it goes to
    last,
    \* per session id and tool name: type of the latest ToolExecution event
    \* broadcast to the session for that name ("none" before the first)
    phase,
    \* per tool invocation: type and progress of the latest event broadcast
    \* for it
    ilast,
    \* per run_agent execution: number of complete and error events it has
    \* broadcast
    nfinal

capVars == <<activeTools, progressTasks, rpc, rsid, rinv, outstanding,
             invTool, invRun, simPc, simStage, last, phase, ilast,
             nfinal>>

VARIABLES
    \* one run_agent execution, record by record: its position, and the number
    \* of records of the pipeline stream it has handled
    tpc, nrec,
    \* the locals of run_agent, lines 57-59
    current_agent, current_tool, current_run_id,
    \* the directory outputs_dir / "runA" of the file system
    fs,
    \* the directory outputs_dir itself: its entries in iterdir() order, with
    \* their modification times
    root,
    \* the record handled by the latest step, and the locals before it
    part, pre,
    \* the events passed to broadcast() while the latest record was handled
    out,
    \* the artifacts the DataUpdate events of the earlier records reported
    seen

trVars == <<tpc, nrec, current_agent, current_tool, current_run_id, fs, root,
            part, pre, out, seen>>

VARIABLES
    \* SessionManager.sessions (session_manager.py line 19), and the number of
    \* sessions the ADK session service has created; the session created k-th
    \* is the handle k
    sessions, created,
    \* one get_or_create_session call per task: its position, its argument
    \* session_id ("none" is None), the local session_id after line 33 and
    \* the session it returned (0: none)
    smPc, smArg, smSid, smRet,
    \* what the call found under its argument at line 28 (0: nothing), the
    \* number of sessions it has created, whether it has assigned to
    \* self.sessions, and whether it started while another call was suspended
    smHad, smMade, smWrote, smOverlap

smVars == <<sessions, created, smPc, smArg, smSid, smRet, smHad, smMade,
            smWrote, smOverlap>>

wsVars == <<active, connPc, connSid, received, sendFailed, bpc, evCount, bsid, bev,
            bidx, bcur, bdead, borphan, bwatch, retInfo, dropped,
            stalled>>

\* ----------------------------------------------------------------- helpers
Range(s) == {s[i] : i \in DOMAIN s}

NoSid == "none"
NoConn == "none"

\* list.remove(x): drops the first occurrence of x
RECURSIVE RemoveFirst(_, _)
RemoveFirst(lst, x) ==
    IF lst = <<>> THEN <<>>
    ELSE IF Head(lst) = x THEN Tail(lst)
    ELSE <<Head(lst)>> \o RemoveFirst(Tail(lst), x)

\* del d[k]
DropKey(tbl, k) == [x \in (DOMAIN tbl) \ {k} |-> tbl[x]]

\* d[k] = v
PutKey(tbl, k, v) == [x \in (DOMAIN tbl) \cup {k} |-> IF x = k THEN v ELSE tbl[x]]

\* the wire messages
AckMsg(sid) == [type |-> "connected", sid |-> sid, task |-> "none", n |-> 0]
EventMsg(t, n, sid) == [type |-> "event", sid |-> sid, task |-> t, n |-> n]

\* ------------------------------------------------ WebSocketManager, pure parts
\* connect, lines 28-32: the body of "async with self._lock"
Register(tbl, ws, sid) ==
    LET t1 == IF sid \notin DOMAIN tbl THEN PutKey(tbl, sid, <<>>) ELSE tbl
    IN  [t1 EXCEPT ![sid] = Append(t1[sid], ws)]

\* disconnect without the "clean up empty sessions" branch
DisconnectNoCleanup(tbl, ws, sid) ==
    IF sid \in DOMAIN tbl
    THEN IF ws \in Range(tbl[sid])
         THEN [tbl EXCEPT ![sid] = RemoveFirst(tbl[sid], ws)]
         ELSE tbl
    ELSE tbl

\* disconnect, lines 41-49
Disconnect(tbl, ws, sid) ==
    IF sid \in DOMAIN tbl
    THEN LET t1 == IF ws \in Range(tbl[sid])
                   THEN [tbl EXCEPT ![sid] = RemoveFirst(tbl[sid], ws)]
                   ELSE tbl
         IN  IF t1[sid] = <<>> THEN DropKey(t1, sid) ELSE t1
    ELSE tbl

\* broadcast, lines 77-78: disconnect every dead connection, in order
RECURSIVE DisconnectAll(_, _, _)
DisconnectAll(tbl, dead, sid) ==
    IF dead = <<>> THEN tbl
    ELSE DisconnectAll(Disconnect(tbl, Head(dead), sid), Tail(dead), sid)

\* get_connection_count(session_id), lines 82-83
GetConnectionCount(tbl, sid) ==
    IF sid \in DOMAIN tbl THEN Len(tbl[sid]) ELSE 0

\* broadcast, line 59: "if session_id not in self.active_connections"
NoEntryNever(tbl, sid) == FALSE

NoEntry(tbl, sid) == sid \notin DOMAIN tbl

\* broadcast, line 68: the list the for loop iterates
AllLists(tbl, sid) ==
    LET keys == DOMAIN tbl
        RECURSIVE Cat(_)
        Cat(ks) == IF ks = {} THEN <<>>
                   ELSE LET k == CHOOSE x \in ks : TRUE
                        IN  tbl[k] \o Cat(ks \ {k})
    IN  Cat(keys)

TargetList(tbl, sid) == tbl[sid]

\* the list iterator of the for loop: index of the item after item i
IterStuck(i) == i

IterAdvance(i) == i + 1


\* ---------------------------------------------------- WebSocketManager, state
NoEvent == [type |-> "none", tool |-> "none", progress |-> 0, inv |-> 0,
            run |-> "none", sid |-> "none", before |-> "none",
            prev |-> [type |-> "none", progress |-> 0], cause |-> "none"]

IdleRet == [kind |-> "none", task |-> "none", n |-> 0, sid |-> NoSid,
            stable |-> {}, failed |-> {}, left |-> {}]

\* ------------------------------------------------- events of the translator
\* the event dictionaries of models.py, with the fields the translator fills
\* in: AgentThought (name = agent_name, text = thought), ToolExecution
\* (name = tool_name, progress) and DataUpdate (run_id, data: the images as
\* <<run_id, directory.name, img.name>>, one per URL, and the count; dir is
\* the scanned directory)
\* and the complete event of line 189 (snapshot = data, the latest outputs)
EmptySnapshot == [run_id |-> "none", images |-> <<>>, gauges |-> <<>>]

NoEv == [type |-> "none", name |-> "none", text |-> "", progress |-> 0,
         run_id |-> "none", dir |-> "none", images |-> <<>>, count |-> 0,
         snapshot |-> EmptySnapshot]

AgentThought(agent_name, thought) ==
    [NoEv EXCEPT !.type = "agent_thought", !.name = agent_name,
                 !.text = thought]

ToolExecution(type, tool_name, progress) ==
    [NoEv EXCEPT !.type = type, !.name = tool_name, !.progress = progress]

DataUpdate(type, run_id, dir, images) ==
    [NoEv EXCEPT !.type = type, !.run_id = run_id, !.dir = dir,
                 !.images = images, !.count = Len(images)]

\* ---------------------------------------------------- the outputs directory
\* gauge_data.json of a directory: no such file, a JSON object, another JSON
\* value (json.load returns a list, a number, ...), or not JSON
GaugeKinds == {"none", "object", "array", "invalid"}

\* a directory without sub-directories: its *.webp files, its *.tif files and
\* its gauge file
Leaves == [webp : {<<>>, <<"a.webp">>}, tif : {<<>>, <<"c.tif">>},
           gauge : GaugeKinds]

EmptyLeaf == [webp |-> <<>>, tif |-> <<>>, gauge |-> "none"]

\* outputs_dir / run_id: missing, a regular file, or a directory with its own
\* files and its sub-directories, in iterdir() order
NoDir == [kind |-> "missing", own |-> EmptyLeaf, subdirs |-> <<>>]

FileForDir == [NoDir EXCEPT !.kind = "file"]

Dir(own, subdirs) == [kind |-> "dir", own |-> own, subdirs |-> subdirs]

SubDir(name, leaf) == [name |-> name, leaf |-> leaf]

\* the run identifiers a tool result may carry; only outputs_dir / "runA" may
\* exist
RunIds == {"runA", "runB"}

DirOf(fsState, run_id) == IF run_id = "runA" THEN fsState ELSE NoDir

\* line 288: list(glob("*.webp")) + list(glob("*.tif"))
Images(leaf) == leaf.webp \o leaf.tif

ImageUrls(run_id, dirname, files) ==
    [k \in DOMAIN files |-> <<run_id, dirname, files[k]>>]

\* lines 305-320: the DataUpdate is built inside the try block, and its field
\* data is declared dict (models.py line 47): a gauge file that is not a JSON
\* object ends in the except branch as a file that is not JSON does
GaugeAccepted(gauge) == gauge = "object"

\* _check_directory_for_outputs, lines 283-320: the events it broadcasts
CheckDirectoryForOutputs(run_id, dirname, leaf) ==
    (IF Images(leaf) # <<>>
     THEN <<DataUpdate("image_ready", run_id, dirname,
                       ImageUrls(run_id, dirname, Images(leaf)))>>
     ELSE <<>>)
    \o (IF GaugeAccepted(leaf.gauge)
        THEN <<DataUpdate("gauge_data", run_id, dirname, <<>>)>>
        ELSE <<>>)

\* lines 277-278: the for loop over the sub-directories
RECURSIVE CheckSubdirs(_, _)
CheckSubdirs(run_id, subdirs) ==
    IF subdirs = <<>> THEN <<>>
    ELSE CheckDirectoryForOutputs(run_id, Head(subdirs).name, Head(subdirs).leaf)
         \o CheckSubdirs(run_id, Tail(subdirs))

\* line 274: exists() holds and iterdir() raises on a path that is not a
\* directory; a missing path has been left at line 271
ScanRaisesUnlessDir(d) == d.kind # "dir"

ScanRaises(d) == d.kind = "file"

\* _check_new_outputs, lines 256-281: the events it broadcasts, and whether it
\* raises
CheckNewOutputs(fsState, run_id) ==
    LET d == DirOf(fsState, run_id)
    IN  IF run_id = "none"
        THEN [events |-> <<>>, raised |-> FALSE]
        ELSE IF ScanRaises(d)
        THEN [events |-> <<>>, raised |-> TRUE]
        ELSE IF d.kind = "missing"
        THEN [events |-> <<>>, raised |-> FALSE]
        ELSE IF d.subdirs # <<>>
        THEN [events |-> CheckSubdirs(run_id, d.subdirs), raised |-> FALSE]
        ELSE [events |-> CheckDirectoryForOutputs(run_id, run_id, d.own),
              raised |-> FALSE]

\* --------------------------------------------------- _get_latest_outputs
\* outputs_dir: missing, a regular file, or a directory with its entries in
\* iterdir() order; an entry has a name, a modification time and, as d, what
\* it is (FileForDir for a regular file, Dir(...) for a directory)
NoRoot == [kind |-> "missing", entries |-> <<>>]

Root(entries) == [kind |-> "dir", entries |-> entries]

Entry(name, mtime, d) == [name |-> name, mtime |-> mtime, d |-> d]

\* the output root in which outputs_dir / "runA" is fsState and nothing else
\* exists
RootOf(fsState) ==
    IF fsState.kind = "missing" THEN Root(<<>>)
    ELSE Root(<<Entry("runA", 1, fsState)>>)

IsRunDir(e) == e.d.kind = "dir"

\* line 336: [d for d in self.outputs_dir.iterdir() if d.is_dir()]
RunDirs(entries) == SelectSeq(entries, IsRunDir)

\* the first listed directory, whatever its modification time
LatestRunFirstListed(run_dirs) == run_dirs[1]

\* line 342: sorted(run_dirs, key=st_mtime, reverse=True)[0]; the sort is
\* stable, so of the directories with the greatest time the first listed is
\* taken
LatestRun(run_dirs) ==
    run_dirs[CHOOSE k \in DOMAIN run_dirs :
                /\ \A j \in DOMAIN run_dirs :
                       run_dirs[j].mtime <= run_dirs[k].mtime
                /\ \A j \in 1..(k - 1) :
                       run_dirs[j].mtime < run_dirs[k].mtime]

\* lines 356-357 and 374-375: the URLs of the *.webp files, with the segment
\* given
WebpUrls(run_id, segment, leaf) == ImageUrls(run_id, segment, leaf.webp)

\* lines 360-370 and 377-387: json.load decides alone; any JSON value is
\* appended, under the label given
GaugeEntry(label, leaf) ==
    IF leaf.gauge \in {"object", "array"}
    THEN <<[date |-> label, data |-> leaf.gauge]>>
    ELSE <<>>

\* lines 354-370: the for loop over the sub-directories
RECURSIVE LatestOfSubdirs(_, _)
LatestOfSubdirs(run_id, subdirs) ==
    IF subdirs = <<>> THEN [images |-> <<>>, gauges |-> <<>>]
    ELSE LET x == Head(subdirs)
             rest == LatestOfSubdirs(run_id, Tail(subdirs))
         IN  [images |-> WebpUrls(run_id, x.name, x.leaf) \o rest.images,
              gauges |-> GaugeEntry(x.name, x.leaf) \o rest.gauges]

\* lines 347-395: the result for the run directory chosen
LatestOf(run_id, d) ==
    IF d.subdirs # <<>>
    THEN LET agg == LatestOfSubdirs(run_id, d.subdirs)
         IN  [run_id |-> run_id, images |-> agg.images, gauges |-> agg.gauges]
    ELSE [run_id |-> run_id, images |-> WebpUrls(run_id, "image", d.own),
          gauges |-> GaugeEntry("latest", d.own)]

\* _get_latest_outputs, lines 322-395: its result, and whether it raises
\* (line 336: iterdir() on an outputs_dir that is no directory)
GetLatestOutputs(rootState) ==
    IF rootState.kind = "missing"
    THEN [data |-> EmptySnapshot, raised |-> FALSE]
    ELSE IF rootState.kind = "file"
    THEN [data |-> EmptySnapshot, raised |-> TRUE]
    ELSE IF RunDirs(rootState.entries) = <<>>
    THEN [data |-> EmptySnapshot, raised |-> FALSE]
    ELSE LET latest_run == LatestRun(RunDirs(rootState.entries))
         IN  [data |-> LatestOf(latest_run.name, latest_run.d),
              raised |-> FALSE]

\* ------------------------------------------------------ records and locals
\* a part of a record of the pipeline stream, with the author of its record:
\*   author             "none": no attribute or empty
\*   text               "": no attribute, None or empty
\*   function_call      kind "absent": no attribute; "empty": None;
\*                      "call": an object with name and args
\*   function_response  kind "absent", "empty", or "resp": an object with name
\*                      and response
\* A name "absent" is an object without the attribute name. The args are
\* None ("empty") or a dict with or without the key location. The response
\* is not a dict (or missing), or a dict with run_id, with parent_dir, or
\* with neither.
AbsentField == [kind |-> "absent", name |-> "absent", data |-> "none"]

EmptyField == [kind |-> "empty", name |-> "absent", data |-> "none"]

Names == {"absent", "segment_flood_area", "search_sentinel_images"}

ArgVals == {"empty", "no_location", "location"}

Responses ==
    {[dict |-> FALSE, key |-> "none", id |-> "none"],
     [dict |-> TRUE, key |-> "none", id |-> "none"]}
    \cup [dict : {TRUE}, key : {"run_id"}, id : RunIds]
    \cup [dict : {TRUE}, key : {"parent_dir"}, id : {"runA"}]

Calls ==
    {AbsentField, EmptyField} \cup [kind : {"call"}, name : Names, data : ArgVals]

Resps ==
    {AbsentField, EmptyField}
    \cup [kind : {"resp"}, name : Names, data : Responses]

NoPart == [author |-> "none", text |-> "", function_call |-> AbsentField,
           function_response |-> AbsentField]

\* current_agent, current_tool, current_run_id ("none" is None)
NoLocals == [agent |-> "none", tool |-> "none", run_id |-> "none"]

ErrorEv == [NoEv EXCEPT !.type = "error"]

\* ------------------------------------------- run_agent, one record at a time
\* hasattr(part, 'function_call'), hasattr(part, 'function_response')
HasAttr(field) == field.kind # "absent"

\* lines 73-84: a new author
OnAuthor(st, p) ==
    IF p.author # "none" /\ p.author # st.agent
    THEN [st EXCEPT !.agent = p.author,
                    !.events = Append(@, AgentThought(p.author, "is analyzing"))]
    ELSE st

\* lines 92-100: text
OnText(st, p) ==
    IF p.text # ""
    THEN [st EXCEPT !.events =
              Append(@, AgentThought(IF st.agent = "none" THEN "Agent"
                                     ELSE st.agent, p.text))]
    ELSE st

\* lines 103-126: function_call; 'location' in args raises when args is None
OnCall(st, p) ==
    LET fc == p.function_call
        tool_name == IF fc.kind = "call" /\ fc.name # "absent" THEN fc.name
                     ELSE "unknown_tool"
    IN  IF ~HasAttr(fc) THEN st
        ELSE IF fc.kind = "call" /\ fc.data = "empty"
        THEN [st EXCEPT !.raised = TRUE]
        ELSE [st EXCEPT
                 !.run_id = IF fc.kind = "call" /\ fc.data = "location"
                            THEN "ts" ELSE @,
                 !.tool = tool_name,
                 !.events = Append(@, ToolExecution("tool_start", tool_name, 0))]

\* lines 136-185: function_response; ToolExecution(tool_name=None) raises
OnResponse(st, p, fsState) ==
    LET fr == p.function_response
        tool_name == IF fr.kind = "resp" /\ fr.name # "absent" THEN fr.name
                     ELSE st.tool
        run_id == IF fr.kind = "resp" /\ fr.data.key # "none" THEN fr.data.id
                  ELSE st.run_id
        scan == CheckNewOutputs(fsState, run_id)
    IN  IF ~HasAttr(fr) THEN st
        ELSE IF tool_name = "none"
        THEN [st EXCEPT !.run_id = run_id, !.raised = TRUE]
        ELSE [st EXCEPT
                 !.run_id = run_id,
                 !.events = Append(@, ToolExecution("tool_complete", tool_name,
                                                    100)) \o scan.events,
                 !.raised = scan.raised]

\* lines 198-205: an exception ends the run with an error event
OnRaise(st) ==
    IF st.raised THEN [st EXCEPT !.events = Append(@, ErrorEv)] ELSE st

\* the artifacts that DataUpdate events report: the image set and the gauge
\* dataset of a scanned directory
Artifacts(events) ==
    {<<events[k].run_id, events[k].dir, events[k].type>> :
        k \in {j \in DOMAIN events :
                  events[j].type \in {"image_ready", "gauge_data"}}}

\* the tasks that call get_or_create_session (the requests of send_message)
SmTasks == {"m1", "m2", "m3"}

\* no session registered and no call made
SmIdle ==
    /\ sessions = <<>>
    /\ created = 0
    /\ smPc = [t \in SmTasks |-> "idle"]
    /\ smArg = [t \in SmTasks |-> "none"]
    /\ smSid = [t \in SmTasks |-> "none"]
    /\ smRet = [t \in SmTasks |-> 0]
    /\ smHad = [t \in SmTasks |-> 0]
    /\ smMade = [t \in SmTasks |-> 0]
    /\ smWrote = [t \in SmTasks |-> FALSE]
    /\ smOverlap = [t \in SmTasks |-> FALSE]

TrIdle ==
    /\ tpc = "idle"
    /\ nrec = 0
    /\ current_agent = "none"
    /\ current_tool = "none"
    /\ current_run_id = "none"
    /\ fs = NoDir
    /\ root = NoRoot
    /\ part = NoPart
    /\ pre = NoLocals
    /\ out = <<>>
    /\ seen = {}

CapIdle ==
    /\ activeTools = {}
    /\ progressTasks = << >>
    /\ rpc = [r \in Runs |-> "idle"]
    /\ rsid = [r \in Runs |-> NoSid]
    /\ rinv = [r \in Runs |-> 0]
    /\ outstanding = [r \in Runs |-> {}]
    /\ invTool = <<>>
    /\ invRun = <<>>
    /\ simPc = <<>>
    /\ simStage = <<>>
    /\ last = NoEvent
    /\ phase = [s \in Sessions |-> [n \in Tools |-> "none"]]
    /\ ilast = <<>>
    /\ nfinal = [r \in Runs |-> 0]

WsInit ==
    /\ active = << >>
    /\ connPc = [c \in Conns |-> "new"]
    /\ connSid = [c \in Conns |-> NoSid]
    /\ received = [c \in Conns |-> <<>>]
    /\ sendFailed = {}
    /\ bpc = [t \in Tasks |-> "idle"]
    /\ bsid = [t \in Tasks |-> NoSid]
    /\ bev = [t \in Tasks |-> 0]
    /\ bidx = [t \in Tasks |-> 0]
    /\ bcur = [t \in Tasks |-> NoConn]
    /\ bdead = [t \in Tasks |-> <<>>]
    /\ borphan = [t \in Tasks |-> FALSE]
    /\ bwatch = [t \in Tasks |-> {}]
    /\ retInfo = IdleRet
    /\ evCount = 0
    /\ dropped = {}
    /\ stalled = {}

\* websockets registered under sid in table tbl
Registered(tbl, sid) == IF sid \in DOMAIN tbl THEN Range(tbl[sid]) ELSE {}

\* A running for loop holds a reference to the list object it iterates. The
\* object leaves the table when disconnect deletes the entry; it is empty then
\* and nothing can append to it any more.
OrphanAfter(tbl2) ==
    [t \in Tasks |-> borphan[t] \/ (bpc[t] = "sending" /\ bsid[t] \notin DOMAIN tbl2)]

WatchAfter(tbl2) ==
    [t \in Tasks |-> IF bpc[t] = "sending"
                     THEN bwatch[t] \cap Registered(tbl2, bsid[t])
                     ELSE {}]

\* the list object the for loop of task t iterates, as it is now
IterList(t) == IF borphan[t] THEN <<>> ELSE TargetList(active, bsid[t])

\* ------------------------------------------- websocket_endpoint and connect
\* websocket.accept() raises: connect raises before it registers anything
AcceptFail(c) ==
    /\ UNCHANGED <<capVars, trVars, smVars>>
    /\ connPc[c] = "new"
    /\ connPc' = [connPc EXCEPT ![c] = "closed"]
    /\ UNCHANGED <<active, connSid, received, sendFailed, bpc, bsid, bev, bidx,
                   bcur, bdead, borphan, bwatch, dropped, stalled, evCount>>
    /\ retInfo' = IdleRet

\* connect up to its second await: accept() returned, the websocket is
\* appended under the lock, send_json(acknowledgment) is called
Connect(c, s) ==
    /\ UNCHANGED <<capVars, trVars, smVars>>
    /\ connPc[c] = "new"
    /\ active' = Register(active, c, s)
    /\ connPc' = [connPc EXCEPT ![c] = "acking"]
    /\ connSid' = [connSid EXCEPT ![c] = s]
    /\ UNCHANGED <<received, sendFailed, bpc, bsid, bev, bidx, bcur, bdead,
                   borphan, bwatch, dropped, stalled, evCount>>
    /\ retInfo' = IdleRet

\* the acknowledgment is written; the endpoint enters its receive loop
AckDone(c) ==
    /\ UNCHANGED <<capVars, trVars, smVars>>
    /\ connPc[c] = "acking"
    /\ c \notin stalled
    /\ received' = [received EXCEPT ![c] = Append(@, AckMsg(connSid[c]))]
    /\ connPc' = [connPc EXCEPT ![c] = "open"]
    /\ UNCHANGED <<active, connSid, sendFailed, bpc, bsid, bev, bidx, bcur,
                   bdead, borphan, bwatch, dropped, stalled, evCount>>
    /\ retInfo' = IdleRet

\* send_json(acknowledgment) raises: connect raises, and websocket_endpoint
\* calls connect outside its try block, so the handler ends without disconnect
AckFail(c) ==
    /\ UNCHANGED <<capVars, trVars, smVars>>
    /\ connPc[c] = "acking"
    /\ c \notin stalled
    /\ sendFailed' = sendFailed \cup {c}
    /\ connPc' = [connPc EXCEPT ![c] = "leaked"]
    /\ UNCHANGED <<active, connSid, received, bpc, bsid, bev, bidx, bcur,
                   bdead, borphan, bwatch, dropped, stalled, evCount>>
    /\ retInfo' = IdleRet

\* the receive loop raises (WebSocketDisconnect, or the pong send fails):
\* both except branches call ws_manager.disconnect
EndpointDisconnect(c) ==
    /\ UNCHANGED <<capVars, trVars, smVars>>
    /\ connPc[c] = "open"
    /\ LET tbl2 == Disconnect(active, c, connSid[c])
       IN  /\ active' = tbl2
           /\ borphan' = OrphanAfter(tbl2)
           /\ bwatch' = WatchAfter(tbl2)
    /\ connPc' = [connPc EXCEPT ![c] = "closed"]
    /\ UNCHANGED <<connSid, received, sendFailed, bpc, bsid, bev, bidx, bcur,
                   bdead, dropped, stalled, evCount>>
    /\ retInfo' = IdleRet

\* ------------------------------------------------------------------ broadcast
\* the call up to its first await
BroadcastCall(t, s) ==
    /\ UNCHANGED <<capVars, trVars, smVars>>
    /\ bpc[t] = "idle"
    /\ evCount < MaxEvents
    /\ evCount' = evCount + 1
    /\ IF NoEntry(active, s)
       THEN \* line 61: return
            /\ dropped' = dropped \cup {<<evCount + 1, s>>}
            /\ retInfo' = [IdleRet EXCEPT !.kind = "dropped", !.task = t,
                                          !.n = evCount + 1, !.sid = s]
            /\ UNCHANGED <<bpc, bsid, bev, bidx, bcur, bwatch>>
       ELSE IF s \notin DOMAIN active \/ TargetList(active, s) = <<>>
       THEN \* line 63 raises KeyError, or the for loop has nothing to do
            /\ retInfo' = [IdleRet EXCEPT !.kind = IF s \notin DOMAIN active
                                                   THEN "raised" ELSE "returned",
                                          !.task = t, !.n = evCount + 1, !.sid = s]
            /\ UNCHANGED <<bpc, bsid, bev, bidx, bcur, bwatch, dropped>>
       ELSE \* line 70: send_json on the first websocket of the list
            /\ bpc' = [bpc EXCEPT ![t] = "sending"]
            /\ bsid' = [bsid EXCEPT ![t] = s]
            /\ bev' = [bev EXCEPT ![t] = evCount + 1]
            /\ bcur' = [bcur EXCEPT ![t] = TargetList(active, s)[1]]
            /\ bidx' = [bidx EXCEPT ![t] = IterAdvance(0)]
            /\ bwatch' = [bwatch EXCEPT ![t] = Registered(active, s)]
            /\ retInfo' = IdleRet
            /\ UNCHANGED dropped
    /\ UNCHANGED <<active, connPc, connSid, received, sendFailed, bdead,
                   borphan, stalled>>

\* after one send_json returned or raised: the next round of the for loop, or
\* the end of the loop, the removal of the dead connections and the return
Continue(t, dead2) ==
    LET lst == IterList(t)
    IN  IF bidx[t] < Len(lst)
        THEN /\ bcur' = [bcur EXCEPT ![t] = lst[bidx[t] + 1]]
             /\ bidx' = [bidx EXCEPT ![t] = IterAdvance(@)]
             /\ bdead' = [bdead EXCEPT ![t] = dead2]
             /\ retInfo' = IdleRet
             /\ UNCHANGED <<active, bpc, bsid, bev, borphan, bwatch>>
        ELSE LET tbl2 == DisconnectAll(active, dead2, bsid[t])
             IN  /\ active' = tbl2
                 /\ retInfo' =
                        [kind |-> "returned", task |-> t, n |-> bev[t],
                         sid |-> bsid[t], stable |-> bwatch[t],
                         failed |-> Range(dead2),
                         left |-> Range(dead2) \cap Registered(tbl2, bsid[t])]
                 /\ bpc' = [bpc EXCEPT ![t] = "idle"]
                 /\ bsid' = [bsid EXCEPT ![t] = NoSid]
                 /\ bev' = [bev EXCEPT ![t] = 0]
                 /\ bcur' = [bcur EXCEPT ![t] = NoConn]
                 /\ bidx' = [bidx EXCEPT ![t] = 0]
                 /\ bdead' = [bdead EXCEPT ![t] = <<>>]
                 /\ borphan' = [OrphanAfter(tbl2) EXCEPT ![t] = FALSE]
                 /\ bwatch' = [WatchAfter(tbl2) EXCEPT ![t] = {}]

\* line 70 returns: the message is on the websocket
SendDone(t) ==
    /\ UNCHANGED <<capVars, trVars, smVars>>
    /\ bpc[t] = "sending"
    /\ bcur[t] \notin stalled
    /\ received' = [received EXCEPT ![bcur[t]] =
                        Append(@, EventMsg(t, bev[t], bsid[t]))]
    /\ Continue(t, bdead[t])
    /\ UNCHANGED <<connPc, connSid, sendFailed, evCount, dropped, stalled>>

\* line 70 raises: lines 72-74
SendFail(t) ==
    /\ UNCHANGED <<capVars, trVars, smVars>>
    /\ bpc[t] = "sending"
    /\ bcur[t] \notin stalled
    /\ sendFailed' = sendFailed \cup {bcur[t]}
    /\ Continue(t, Append(bdead[t], bcur[t]))
    /\ UNCHANGED <<connPc, connSid, received, evCount, dropped, stalled>>

WsNext ==
    \/ \E c \in Conns : AcceptFail(c)
    \/ \E c \in Conns, s \in Sessions : Connect(c, s)
    \/ \E c \in Conns : AckDone(c)
    \/ \E c \in Conns : AckFail(c)
    \/ \E c \in Conns : EndpointDisconnect(c)
    \/ \E t \in Tasks, s \in Sessions : BroadcastCall(t, s)
    \/ \E t \in Tasks : SendDone(t)
    \/ \E t \in Tasks : SendFail(t)

vars == <<wsVars, capVars, trVars, smVars>>

Init == WsInit /\ CapIdle /\ TrIdle /\ SmIdle

Next == WsNext

Spec == Init /\ [][Next]_vars


\* ------------------------------------------------------------------ claims
\* the events that arrived on websocket c, in arrival order
EventsOf(c) == SelectSeq(received[c], LAMBDA m : m.type = "event")

HasEvent(c, t, n, sid) == EventMsg(t, n, sid) \in Range(received[c])

\* C1: when a broadcast() call returns, every websocket that was registered
\* under the session from the start of the call to its return, and whose send
\* did not fail, has received the event of the call.
C1_BroadcastReachesAllRegistered ==
    retInfo.kind = "returned" =>
        \A c \in retInfo.stable \ retInfo.failed :
            HasEvent(c, retInfo.task, retInfo.n, retInfo.sid)

\* C2: every event that arrived on a websocket was broadcast to the session
\* id the websocket is registered under.
C2_NoCrossSessionDelivery ==
    \A c \in Conns : \A i \in DOMAIN received[c] :
        received[c][i].type = "event" => received[c][i].sid = connSid[c]

C2_Witness ==
    \E c1, c2 \in Conns :
        /\ connSid[c1] = "s1" /\ connSid[c2] = "s2"
        /\ Len(EventsOf(c1)) > 0 /\ Len(EventsOf(c2)) > 0

\* no connect and no broadcast call is in progress for session s
Quiescent(s) ==
    /\ \A c \in Conns : ~(connSid[c] = s /\ connPc[c] = "acking")
    /\ \A t \in Tasks : ~(bpc[t] = "sending" /\ bsid[t] = s)

\* websockets attached to s, not detached, and without a failed send
LiveConns(s) ==
    {c \in Conns : /\ connSid[c] = s
                   /\ connPc[c] \in {"acking", "open", "leaked"}
                   /\ c \notin sendFailed}

\* C3: whenever no connect or broadcast call is in progress for a session,
\* get_connection_count(session) is the number of websockets attached to it,
\* not detached, and on which no send (acknowledgment or event) has failed.
C3_CountIsLiveConnections ==
    \A s \in Sessions :
        Quiescent(s) => GetConnectionCount(active, s) = Cardinality(LiveConns(s))

\* C4: the events one task broadcasts one after another arrive on every
\* websocket at most once and in the order of the calls.
C4_PerTaskOrderAtMostOnce ==
    \A c \in Conns : \A i, j \in DOMAIN received[c] :
        (/\ i < j
         /\ received[c][i].type = "event" /\ received[c][j].type = "event"
         /\ received[c][i].task = received[c][j].task)
        => received[c][i].n < received[c][j].n

C4_Witness ==
    \E c \in Conns : \E i, j \in DOMAIN received[c] :
        /\ i < j
        /\ received[c][i].type = "event" /\ received[c][j].type = "event"
        /\ received[c][i].task = received[c][j].task

\* C5: a broadcast() call in which a send raised still sent the event to
\* every other websocket registered under the session, has removed the
\* failing websockets when it returns, and does not raise.
C5_FailureDoesNotAbortFanOut ==
    /\ retInfo.kind # "raised"
    /\ (retInfo.kind = "returned" /\ retInfo.failed # {}) =>
          /\ \A c \in retInfo.stable \ retInfo.failed :
                HasEvent(c, retInfo.task, retInfo.n, retInfo.sid)
          /\ retInfo.left = {}

\* C6: a broadcast() to a session id without registered connection returns
\* in the same step (no suspension), does not raise, leaves the table and the
\* websockets untouched, and its event never arrives on any websocket.
C6_NoConnectionsIsSilentDrop ==
    /\ [][\A t \in Tasks, s \in Sessions :
            (BroadcastCall(t, s) /\ Registered(active, s) = {}) =>
                /\ bpc'[t] = "idle"
                /\ retInfo'.kind = "dropped"
                /\ active' = active
                /\ received' = received]_vars
    /\ [](\A d \in dropped : \A c \in Conns : \A i \in DOMAIN received[c] :
            received[c][i].type = "event" => received[c][i].n # d[1])

C6_Witness ==
    \E d \in dropped : \E c \in Conns :
        /\ connSid[c] = d[2]
        /\ \E i \in DOMAIN received[c] :
              received[c][i].type = "event" /\ received[c][i].n > d[1]

\* C7: the connection table never maps a session id to an empty list.
C7_NoEmptyEntry == \A s \in DOMAIN active : active[s] # <<>>

C7_Witness ==
    /\ retInfo.kind = "returned" /\ retInfo.failed # {}
    /\ retInfo.sid \notin DOMAIN active
    /\ \E c \in Conns : /\ connPc[c] = "closed" /\ connSid[c] \in Sessions
                        /\ connSid[c] # retInfo.sid
                        /\ connSid[c] \notin DOMAIN active

\* ------------------------------------------------- a send that never completes
\* As Init, for any set of websockets whose send_json never completes: a
\* peer that stops reading while the connection stays up.
StallInit ==
    /\ CapIdle /\ TrIdle /\ SmIdle
    /\ active = << >>
    /\ connPc = [c \in Conns |-> "new"]
    /\ connSid = [c \in Conns |-> NoSid]
    /\ received = [c \in Conns |-> <<>>]
    /\ sendFailed = {}
    /\ bpc = [t \in Tasks |-> "idle"]
    /\ bsid = [t \in Tasks |-> NoSid]
    /\ bev = [t \in Tasks |-> 0]
    /\ bidx = [t \in Tasks |-> 0]
    /\ bcur = [t \in Tasks |-> NoConn]
    /\ bdead = [t \in Tasks |-> <<>>]
    /\ borphan = [t \in Tasks |-> FALSE]
    /\ bwatch = [t \in Tasks |-> {}]
    /\ retInfo = IdleRet
    /\ dropped = {}
    /\ evCount = 0
    /\ stalled \in SUBSET Conns

\* The event loop resumes every task whose awaited send has completed or
\* failed; nothing obliges clients to connect or to leave, or a producer to
\* broadcast.
StallFairness == \A t \in Tasks : WF_vars(SendDone(t) \/ SendFail(t))

SpecStall == StallInit /\ [][Next]_vars /\ StallFairness

\* C8: when a broadcast() call waits on a websocket whose send never
\* completes, every other websocket that has been registered under the
\* session since the call started and is not itself stalled still eventually
\* receives the event of that call (unless it leaves the session or a send to
\* it fails).
C8_SlowObserverIsIsolated ==
    \A t \in Tasks, c \in Conns, s \in Sessions, n \in 1..MaxEvents :
        (/\ bpc[t] = "sending" /\ bsid[t] = s /\ bev[t] = n
         /\ bcur[t] \in stalled
         /\ c \in bwatch[t] /\ c \notin stalled)
        ~> (\/ HasEvent(c, t, n, s)
            \/ c \notin Registered(active, s)
            \/ c \in sendFailed)

\* ------------------------------------------------------------ ADKEventCapture
\* _monitor_tool_progress, lines 218-234: the progress values of the stages
Stages(tool) ==
    IF tool = "segment_flood_area" THEN <<20, 40, 60, 85, 95>>
    ELSE IF tool = "get_time_series_water" THEN <<25, 50, 75, 95>>
    ELSE <<>>

\* the event record: the ToolExecution payload (type, tool, progress), the
\* invocation and run it comes from (0 and "none" where there is none), the
\* session id passed to broadcast(), and what the session got before it: the
\* type of the latest event for the tool name, and the latest event of the
\* invocation
ToolEvent(type, tool, progress, i, r) ==
    [type |-> type, tool |-> tool, progress |-> progress, inv |-> i, run |-> r,
     sid |-> rsid[r], before |-> phase[rsid[r]][tool],
     prev |-> IF i \in DOMAIN ilast THEN ilast[i]
              ELSE [type |-> "none", progress |-> 0],
     cause |-> "none"]

\* the complete and error events of a run
RunEvent(type, r) == [NoEvent EXCEPT !.type = type, !.run = r, !.sid = rsid[r]]

\* how the try block of run_agent is left: the pipeline stream ended and
\* _get_latest_outputs returned ("ended"), the stream ended and
\* _get_latest_outputs raised ("scan_failed": iterdir() and stat() of lines
\* 336-351 are not guarded), or the stream or the handling of one of its
\* records raised ("raised")
Causes == {"ended", "scan_failed", "raised"}

\* lines 190-205: the event the run ends with
FinalTypeAlwaysComplete(cause) == "complete"

FinalType(cause) == IF cause = "ended" THEN "complete" ELSE "error"

\* the broadcast of lines 190 or 200
EmitFinal(r, cause) ==
    /\ last' = [RunEvent(FinalType(cause), r) EXCEPT !.cause = cause]
    /\ nfinal' = [nfinal EXCEPT ![r] = @ + 1]
    /\ UNCHANGED <<phase, ilast>>

\* await ws_manager.broadcast(session_id, event), of invocation i: the call
Emit(ev, ilast2) ==
    /\ last' = ev
    /\ phase' = [phase EXCEPT ![ev.sid][ev.tool] = ev.type]
    /\ ilast' = [ilast2 EXCEPT ![ev.inv] = [type |-> ev.type,
                                           progress |-> ev.progress]]
    /\ UNCHANGED nfinal

\* a step that broadcasts nothing
NoEmit == last' = NoEvent /\ UNCHANGED <<phase, ilast, nfinal>>

\* run_agent, line 129: the tools that get a progress task
Spawns(tool) == tool \in LongTools

\* Task.cancel(), line 163: a task that has not finished gets CancelledError
\* at its pending await (or never starts) and ends in its except branch
CancelTask(pcs, i) ==
    [pcs EXCEPT ![i] = IF @ \in {"created", "sleeping", "tick_sent"}
                       THEN "cancelled" ELSE @]

\* send_message creates the task; run_agent runs up to its first await on the
\* pipeline stream
RunStart(r, s) ==
    /\ UNCHANGED <<wsVars, trVars, smVars>>
    /\ rpc[r] = "idle"
    /\ rpc' = [rpc EXCEPT ![r] = "next"]
    /\ rsid' = [rsid EXCEPT ![r] = s]
    /\ NoEmit
    /\ UNCHANGED <<activeTools, progressTasks, rinv, outstanding, invTool,
                   invRun, simPc, simStage>>

\* the pipeline yields a part with a function_call: lines 103-126, up to the
\* await of broadcast(tool_start). One pipeline invokes a tool name again only
\* after its earlier invocation of that name returned.
PipeCall(r, tool) ==
    /\ UNCHANGED <<wsVars, trVars, smVars>>
    /\ rpc[r] = "next"
    /\ Len(invTool) < MaxCalls
    /\ \A i \in outstanding[r] : invTool[i] # tool
    /\ LET i == Len(invTool) + 1
       IN  /\ invTool' = Append(invTool, tool)
           /\ invRun' = Append(invRun, r)
           /\ simPc' = Append(simPc, "none")
           /\ simStage' = Append(simStage, 0)
           /\ outstanding' = [outstanding EXCEPT ![r] = @ \cup {i}]
           /\ rinv' = [rinv EXCEPT ![r] = i]
           /\ activeTools' = activeTools \cup {tool}
           /\ Emit(ToolEvent("tool_start", tool, 0, i, r),
                   Append(ilast, NoEvent.prev))
    /\ rpc' = [rpc EXCEPT ![r] = "start_sent"]
    /\ UNCHANGED <<progressTasks, rsid>>

\* broadcast(tool_start) returned: lines 128-133
StartSent(r) ==
    /\ UNCHANGED <<wsVars, trVars, smVars>>
    /\ rpc[r] = "start_sent"
    /\ LET i == rinv[r]
           tool == invTool[i]
       IN  IF Spawns(tool)
           THEN /\ simPc' = [simPc EXCEPT ![i] = "created"]
                /\ progressTasks' = PutKey(progressTasks, tool, i)
           ELSE UNCHANGED <<simPc, progressTasks>>
    /\ rpc' = [rpc EXCEPT ![r] = "next"]
    /\ rinv' = [rinv EXCEPT ![r] = 0]
    /\ NoEmit
    /\ UNCHANGED <<activeTools, rsid, outstanding, invTool, invRun, simStage>>

\* the pipeline yields a part with the function_response of invocation i:
\* lines 136-178, up to the await of broadcast(tool_complete)
PipeReturn(r, i) ==
    /\ UNCHANGED <<wsVars, trVars, smVars>>
    /\ rpc[r] = "next"
    /\ i \in outstanding[r]
    /\ LET tool == invTool[i]
       IN  /\ IF tool \in DOMAIN progressTasks
              THEN /\ simPc' = CancelTask(simPc, progressTasks[tool])
                   /\ progressTasks' = DropKey(progressTasks, tool)
              ELSE UNCHANGED <<simPc, progressTasks>>
           /\ activeTools' = activeTools \ {tool}
           /\ Emit(ToolEvent("tool_complete", tool, 100, i, r), ilast)
    /\ outstanding' = [outstanding EXCEPT ![r] = @ \ {i}]
    /\ rinv' = [rinv EXCEPT ![r] = i]
    /\ rpc' = [rpc EXCEPT ![r] = "complete_sent"]
    /\ UNCHANGED <<rsid, invTool, invRun, simStage>>

\* broadcast(tool_complete) returned: back to the pipeline stream
CompleteSent(r) ==
    /\ UNCHANGED <<wsVars, trVars, smVars>>
    /\ rpc[r] = "complete_sent"
    /\ rpc' = [rpc EXCEPT ![r] = "next"]
    /\ rinv' = [rinv EXCEPT ![r] = 0]
    /\ NoEmit
    /\ UNCHANGED <<activeTools, progressTasks, rsid, outstanding, invTool,
                   invRun, simPc, simStage>>

\* the pipeline stream ends: lines 187-196, up to the await of the broadcast
\* of the complete event, or, when _get_latest_outputs raises, lines 187-205,
\* up to the await of the broadcast of the error event
PipeEnd(r, cause) ==
    /\ UNCHANGED <<wsVars, trVars, smVars>>
    /\ rpc[r] = "next"
    /\ outstanding[r] = {}
    /\ cause \in {"ended", "scan_failed"}
    /\ EmitFinal(r, cause)
    /\ rpc' = [rpc EXCEPT ![r] = "final_sent"]
    /\ UNCHANGED <<activeTools, progressTasks, rsid, rinv, outstanding,
                   invTool, invRun, simPc, simStage>>

\* the pipeline stream raises: lines 198-205, up to the await of the broadcast
PipeRaise(r) ==
    /\ UNCHANGED <<wsVars, trVars, smVars>>
    /\ rpc[r] = "next"
    /\ EmitFinal(r, "raised")
    /\ rpc' = [rpc EXCEPT ![r] = "final_sent"]
    /\ UNCHANGED <<activeTools, progressTasks, rsid, rinv, outstanding,
                   invTool, invRun, simPc, simStage>>

\* the last broadcast returned: run_agent returns or re-raises (line 206) and
\* run_agent_background ends
FinalSent(r) ==
    /\ UNCHANGED <<wsVars, trVars, smVars>>
    /\ rpc[r] = "final_sent"
    /\ rpc' = [rpc EXCEPT ![r] = "done"]
    /\ NoEmit
    /\ UNCHANGED <<activeTools, progressTasks, rsid, rinv, outstanding,
                   invTool, invRun, simPc, simStage>>

\* ---------------------------------------------------- _monitor_tool_progress
\* a loop that repeats its last stage until the tool has returned
LoopHeadUntilReturned(i, stage) ==
    IF invTool[i] \notin activeTools
    THEN /\ simPc' = [simPc EXCEPT ![i] = "done"]
         /\ UNCHANGED simStage
    ELSE /\ simPc' = [simPc EXCEPT ![i] = "sleeping"]
         /\ simStage' = [simStage EXCEPT ![i] =
                             IF stage > Len(Stages(invTool[i]))
                             THEN Len(Stages(invTool[i])) ELSE stage]

\* the head of the for loop, lines 236-240: leave, or sleep for the next stage
LoopHead(i, stage) ==
    IF stage > Len(Stages(invTool[i])) \/ invTool[i] \notin activeTools
    THEN /\ simPc' = [simPc EXCEPT ![i] = "done"]
         /\ UNCHANGED simStage
    ELSE /\ simPc' = [simPc EXCEPT ![i] = "sleeping"]
         /\ simStage' = [simStage EXCEPT ![i] = stage]

\* the task runs for the first time
SimStart(i) ==
    /\ UNCHANGED <<wsVars, trVars, smVars>>
    /\ i \in DOMAIN simPc
    /\ simPc[i] = "created"
    /\ LoopHead(i, 1)
    /\ NoEmit
    /\ UNCHANGED <<activeTools, progressTasks, rpc, rsid, rinv, outstanding,
                   invTool, invRun>>

\* asyncio.sleep(delay) returned: lines 242-250, up to the await of broadcast
SimWake(i) ==
    /\ UNCHANGED <<wsVars, trVars, smVars>>
    /\ i \in DOMAIN simPc
    /\ simPc[i] = "sleeping"
    /\ Emit(ToolEvent("tool_progress", invTool[i],
                      Stages(invTool[i])[simStage[i]], i, invRun[i]), ilast)
    /\ simPc' = [simPc EXCEPT ![i] = "tick_sent"]
    /\ UNCHANGED <<activeTools, progressTasks, rpc, rsid, rinv, outstanding,
                   invTool, invRun, simStage>>

\* broadcast(tool_progress) returned: the next round of the for loop
SimTickSent(i) ==
    /\ UNCHANGED <<wsVars, trVars, smVars>>
    /\ i \in DOMAIN simPc
    /\ simPc[i] = "tick_sent"
    /\ LoopHead(i, simStage[i] + 1)
    /\ NoEmit
    /\ UNCHANGED <<activeTools, progressTasks, rpc, rsid, rinv, outstanding,
                   invTool, invRun>>

CapNext ==
    \/ \E r \in Runs, s \in Sessions : RunStart(r, s)
    \/ \E r \in Runs, tool \in Tools : PipeCall(r, tool)
    \/ \E r \in Runs : StartSent(r)
    \/ \E r \in Runs, i \in 1..MaxCalls : PipeReturn(r, i)
    \/ \E r \in Runs : CompleteSent(r)
    \/ \E r \in Runs, cause \in Causes : PipeEnd(r, cause)
    \/ \E r \in Runs : PipeRaise(r)
    \/ \E r \in Runs : FinalSent(r)
    \/ \E i \in 1..MaxCalls : SimStart(i)
    \/ \E i \in 1..MaxCalls : SimWake(i)
    \/ \E i \in 1..MaxCalls : SimTickSent(i)

\* any runs and sessions, on the one shared ADKEventCapture instance of chat.py
CapInit == WsInit /\ CapIdle /\ TrIdle /\ SmIdle

SpecCapture == CapInit /\ [][CapNext]_vars

\* the runs that broadcast to session s
RunsOf(s) == {r \in Runs : rsid[r] = s}

Started == {"tool_start", "tool_progress"}

\* C9, for the sessions one run broadcasts to (the claim covers them, and
\* the sessions shared by several runs as well): a tool_progress or a
\* tool_complete for a tool name reaches the session only when the latest
\* event of the session for that name is a tool_start or a tool_progress, and
\* a tool_start only when it is none of the two.
C9_ToolPhasesInOrder ==
    (last.tool \in Tools /\ Cardinality(RunsOf(last.sid)) <= 1) =>
        /\ last.type \in {"tool_progress", "tool_complete"} =>
              last.before \in Started
        /\ last.type = "tool_start" => last.before \notin Started

\* C10: the events of one invocation of a long-running tool are a tool_start
\* with progress 0, then tool_progress events with non-decreasing progress
\* below 100, then a tool_complete with progress 100, with no tool_progress
\* after the tool_complete.
C10_SimulatedProgressShape ==
    last.tool \in LongTools =>
        /\ last.type = "tool_start" =>
              last.prev.type = "none" /\ last.progress = 0
        /\ last.type = "tool_progress" =>
              /\ last.prev.type \in Started
              /\ last.prev.progress <= last.progress
              /\ last.progress < 100
        /\ last.type = "tool_complete" =>
              last.prev.type \in Started /\ last.progress = 100

\* C11: a tool_progress is broadcast for an invocation only while the
\* function_response of that invocation has not been processed by its run.
C11_NoTickAfterReturn ==
    last.type = "tool_progress" => last.inv \in outstanding[last.run]

\* the progress tasks that have been created and have not finished, of tool
\* name n, broadcasting to session s
RunningTasks(s, n) ==
    {i \in DOMAIN simPc : /\ simPc[i] \in {"created", "sleeping", "tick_sent"}
                          /\ invTool[i] = n
                          /\ rsid[invRun[i]] = s}

\* C12: at most one progress task is running per session and tool name.
C12_OneSimulatorPerPair ==
    \A s \in Sessions, n \in Tools : Cardinality(RunningTasks(s, n)) <= 1

\* the run has left its try block
Finished(r) == rpc[r] \in {"final_sent", "done"}

C14_TerminalEventIsLast ==
    (last.run \in Runs /\ last.type \notin {"complete", "error"}) =>
        ~Finished(last.run)

\* --------------------------------------------- one run, record by record
\* the states of outputs_dir / "runA" the run is checked with
ImageLeaf(gauge) == [webp |-> <<"a.webp">>, tif |-> <<>>, gauge |-> gauge]

TrDirs == {NoDir, FileForDir, Dir(ImageLeaf("object"), <<>>),
           Dir(ImageLeaf("invalid"), <<>>),
           Dir(EmptyLeaf, <<SubDir("d1", ImageLeaf("object"))>>)}

TrInit ==
    /\ WsInit /\ CapIdle /\ SmIdle
    /\ tpc = "next"
    /\ nrec = 0
    /\ current_agent = "none"
    /\ current_tool = "none"
    /\ current_run_id = "none"
    /\ fs \in TrDirs
    /\ root = RootOf(fs)
    /\ part = NoPart
    /\ pre = NoLocals
    /\ out = <<>>
    /\ seen = {}

\* the locals and the events of the record in hand, as the On... steps take
\* them
Locals == [agent |-> current_agent, tool |-> current_tool,
           run_id |-> current_run_id]

InHand == [agent |-> current_agent, tool |-> current_tool,
           run_id |-> current_run_id, events |-> out, raised |-> FALSE]

\* a step of run_agent ends with the locals and the events of st
Store(st, pc) ==
    /\ current_agent' = st.agent
    /\ current_tool' = st.tool
    /\ current_run_id' = st.run_id
    /\ out' = st.events
    /\ tpc' = IF st.raised THEN "failed" ELSE pc

\* the pipeline stream yields a record: lines 62-84, the author
RecAuthor(author) ==
    /\ UNCHANGED <<wsVars, capVars, smVars>>
    /\ tpc = "next"
    /\ nrec < MaxRecords
    /\ nrec' = nrec + 1
    /\ part' = [NoPart EXCEPT !.author = author]
    /\ pre' = Locals
    /\ seen' = seen \cup Artifacts(out)
    /\ Store(OnAuthor([InHand EXCEPT !.events = <<>>], part'), "text")
    /\ UNCHANGED <<fs, root>>

\* lines 87-100: the text of the part
RecText(text) ==
    /\ UNCHANGED <<wsVars, capVars, smVars>>
    /\ tpc = "text"
    /\ part' = [part EXCEPT !.text = text]
    /\ Store(OnText(InHand, part'), "call")
    /\ UNCHANGED <<nrec, pre, seen, fs, root>>

\* lines 103-133: the function_call of the part
RecCall(fc) ==
    /\ UNCHANGED <<wsVars, capVars, smVars>>
    /\ tpc = "call"
    /\ part' = [part EXCEPT !.function_call = fc]
    /\ Store(OnRaise(OnCall(InHand, part')), "resp")
    /\ UNCHANGED <<nrec, pre, seen, fs, root>>

\* lines 136-185: the function_response of the part
RecResponse(fr) ==
    /\ UNCHANGED <<wsVars, capVars, smVars>>
    /\ tpc = "resp"
    /\ part' = [part EXCEPT !.function_response = fr]
    /\ Store(OnRaise(OnResponse(InHand, part', fs)), "next")
    /\ UNCHANGED <<nrec, pre, seen, fs, root>>

\* the pipeline stream ends: lines 187-196, and 198-205 when
\* _get_latest_outputs raises
StreamEnd ==
    /\ UNCHANGED <<wsVars, capVars, smVars>>
    /\ tpc = "next"
    /\ LET latest_data == GetLatestOutputs(root)
       IN  IF latest_data.raised
           THEN /\ tpc' = "failed"
                /\ out' = <<ErrorEv>>
           ELSE /\ tpc' = "ended"
                /\ out' = <<[NoEv EXCEPT !.type = "complete",
                                         !.snapshot = latest_data.data]>>
    /\ part' = NoPart
    /\ pre' = Locals
    /\ seen' = seen \cup Artifacts(out)
    /\ UNCHANGED <<nrec, current_agent, current_tool, current_run_id, fs,
                   root>>

TrNext ==
    \/ \E author \in {"none", "a1"} : RecAuthor(author)
    \/ \E text \in {"", "hello"} : RecText(text)
    \/ \E fc \in Calls : RecCall(fc)
    \/ \E fr \in Resps : RecResponse(fr)
    \/ StreamEnd

SpecTranslate == TrInit /\ [][TrNext]_vars

\* the record in hand has been handled to its end without an exception
Handled == tpc = "next" /\ nrec > 0

\* the events of one type among evs, and those that report on directory dir
OfType(evs, type) == {k \in DOMAIN evs : evs[k].type = type}

OfDir(evs, type, dir) == {k \in OfType(evs, type) : evs[k].dir = dir}

\* C15: a part with non-empty text whose function_call and function_response
\* are absent or empty, in a record that brings no new author, yields one
\* event, the AgentThought with that text and the current agent name (or
\* "Agent"), and leaves current_tool as it was.
C15_TextPartYieldsOneThought ==
    (/\ Handled
     /\ part.text # ""
     /\ part.function_call.kind # "call"
     /\ part.function_response.kind # "resp"
     /\ part.author \in {"none", pre.agent})
    => /\ out = <<AgentThought(IF pre.agent = "none" THEN "Agent"
                               ELSE pre.agent, part.text)>>
       /\ current_tool = pre.tool

\* C16: a function_response whose response is no dict, or a dict with
\* neither run_id nor parent_dir, yields the tool_complete event and no
\* DataUpdate event.
C16_NoDataUpdateWithoutRunId ==
    (/\ Handled
     /\ part.function_response.kind = "resp"
     /\ part.function_response.data.key = "none")
    => /\ OfType(out, "tool_complete") # {}
       /\ OfType(out, "image_ready") = {}
       /\ OfType(out, "gauge_data") = {}

\* C17: once a function_response has been handled, current_tool is None.
C17_CurrentToolCleared ==
    (Handled /\ part.function_response.kind = "resp") => current_tool = "none"

\* C18: the DataUpdate events that follow a function_response carrying a run
\* identifier report no image set and no gauge dataset that a DataUpdate event
\* of an earlier record of the run reported (the directory does not change).
C18_NoArtifactReportedTwice ==
    (/\ Handled
     /\ part.function_response.kind = "resp"
     /\ part.function_response.data.key # "none")
    => Artifacts(out) \cap seen = {}

\* ------------------------------------------------- _check_new_outputs alone
\* the states of outputs_dir / "runA" the scan is applied to
FsStates ==
    {NoDir, FileForDir}
    \cup {Dir(own, <<>>) : own \in Leaves}
    \cup {Dir(own, <<SubDir("d1", l1)>>) : own \in Leaves, l1 \in Leaves}
    \cup {Dir(own, <<SubDir("d1", l1), SubDir("d2", l2)>>) :
             own \in {EmptyLeaf, ImageLeaf("object")},
             l1 \in Leaves, l2 \in Leaves}
    \cup {Dir(EmptyLeaf, <<SubDir("d1", l1), SubDir("image", l2)>>) :
             l1 \in Leaves, l2 \in Leaves}

ScanInit ==
    /\ WsInit /\ CapIdle /\ SmIdle
    /\ tpc = "scan"
    /\ nrec = 0
    /\ current_agent = "none"
    /\ current_tool = "none"
    /\ current_run_id = "none"
    /\ fs \in FsStates
    /\ root = RootOf(fs)
    /\ part = NoPart
    /\ pre = NoLocals
    /\ out = <<>>
    /\ seen = {}

\* await self._check_new_outputs(session_id, run_id)
ScanRun(run_id) ==
    /\ UNCHANGED <<wsVars, capVars, smVars>>
    /\ tpc = "scan"
    /\ LET scan == CheckNewOutputs(fs, run_id)
       IN  /\ out' = scan.events
           /\ tpc' = IF scan.raised THEN "failed" ELSE "scanned"
    /\ current_run_id' = run_id
    /\ UNCHANGED <<nrec, current_agent, current_tool, fs, root, part, pre,
                   seen>>

ScanNext == \E run_id \in RunIds \cup {"none"} : ScanRun(run_id)

SpecScan == ScanInit /\ [][ScanNext]_vars

\* the directories a scan of directory d for run_id looks into, as SubDir
\* records: the sub-directories when there are any, the directory itself
\* otherwise
ScannedDirs(d, run_id) ==
    IF d.subdirs # <<>> THEN Range(d.subdirs) ELSE {SubDir(run_id, d.own)}

C20_ScanFailureStaysLocal ==
    (/\ tpc \in {"next", "failed"}
     /\ OfType(out, "tool_complete") # {}
     /\ current_run_id # "none")
    => LET d == DirOf(fs, current_run_id)
       IN  /\ d.kind = "missing" =>
                /\ tpc = "next" /\ OfType(out, "error") = {}
                /\ OfType(out, "image_ready") = {}
                /\ OfType(out, "gauge_data") = {}
           /\ d.kind = "dir" =>
                \A x \in ScannedDirs(d, current_run_id) :
                    x.leaf.gauge = "invalid" =>
                        /\ tpc = "next" /\ OfType(out, "error") = {}
                        /\ Cardinality(OfDir(out, "image_ready", x.name))
                               = IF Images(x.leaf) # <<>> THEN 1 ELSE 0
                        /\ OfDir(out, "gauge_data", x.name) = {}

\* a scan after a tool_complete met a gauge file that is not JSON next to an
\* image
C20_Witness ==
    /\ Handled
    /\ OfType(out, "tool_complete") # {}
    /\ current_run_id = "runA"
    /\ fs.kind = "dir" /\ fs.subdirs = <<>> /\ fs.own.gauge = "invalid"
    /\ OfDir(out, "image_ready", "runA") # {}

\* ------------------------------------------------ what a DataUpdate carries
\* model_dump of a DataUpdate (models.py lines 42-47): type, run_id and data.
\* The data of an image_ready are the URLs and the count (lines 295-298); the
\* data of a gauge_data is the parsed file and nothing else (line 315). The
\* scanned directory enters the event through the URLs only.
Payload(ev) ==
    [type |-> ev.type, run_id |-> ev.run_id, images |-> ev.images,
     count |-> ev.count]

\* the directory name an event names: the second component of its URLs
\* (line 296); an event without URLs names none
Label(p) == IF p.images # <<>> THEN p.images[1][2] ELSE "none"

\* the label of line 383 for a run directory without sub-directories
FixedLabel == "latest"

\* C21: every gauge_data event of a scan carries the name of the
\* sub-directory its gauge file was read from, or the fixed label when the run
\* directory has no sub-directory, and the gauge_data events of two
\* sub-directories of one run differ.
C21_GaugeEventLabeled ==
    (tpc = "scanned" /\ DirOf(fs, current_run_id).kind = "dir") =>
        /\ \A k \in OfType(out, "gauge_data") :
               Label(Payload(out[k]))
                   = IF DirOf(fs, current_run_id).subdirs # <<>>
                     THEN out[k].dir ELSE FixedLabel
        /\ \A j, k \in OfType(out, "gauge_data") :
               out[j].dir # out[k].dir => Payload(out[j]) # Payload(out[k])

\* --------------------------------------------------- routers/outputs.py
\* a file below outputs_dir / run_id: the sub-directory it lies in ("." for
\* the run directory itself) and its name
FileAt(dirname, filename) == <<dirname, filename>>

NotFound == <<"404", "404">>

HasFile(leaf, filename) == filename \in Range(leaf.webp) \cup Range(leaf.tif)

\* lines 69-73: the first sub-directory, in iterdir() order, with the file
RECURSIVE FirstNested(_, _)
FirstNested(subdirs, filename) ==
    IF subdirs = <<>> THEN NotFound
    ELSE IF HasFile(Head(subdirs).leaf, filename)
    THEN FileAt(Head(subdirs).name, filename)
    ELSE FirstNested(Tail(subdirs), filename)

\* get_image, lines 58-75
GetImage(d, filename) ==
    IF d.kind = "dir" /\ HasFile(d.own, filename) THEN FileAt(".", filename)
    ELSE IF d.kind = "dir" THEN FirstNested(d.subdirs, filename)
    ELSE NotFound

\* get_nested_file, lines 78-85
GetNestedFile(d, subdir, filename) ==
    IF /\ d.kind = "dir"
       /\ \E x \in Range(d.subdirs) : x.name = subdir /\ HasFile(x.leaf, filename)
    THEN FileAt(subdir, filename)
    ELSE NotFound

\* the route a URL /api/outputs/{url[1]}/{url[2]}/{url[3]} is served by: the
\* route with the literal segment image is declared first (line 58) and
\* takes every URL with that segment
Resolve(fsState, url) ==
    IF url[2] = "image" THEN GetImage(DirOf(fsState, url[1]), url[3])
    ELSE GetNestedFile(DirOf(fsState, url[1]), url[2], url[3])

\* C22: every URL of an image_ready event of a scan is served the file it
\* was generated for: the file of that name in the scanned sub-directory, or
\* in the run directory when the run directory itself was scanned.
C22_UrlsResolve ==
    (tpc = "scanned" /\ DirOf(fs, current_run_id).kind = "dir") =>
        \A k \in OfType(out, "image_ready") :
            \A j \in DOMAIN out[k].images :
                Resolve(fs, out[k].images[j])
                    = FileAt(IF DirOf(fs, current_run_id).subdirs = <<>>
                             THEN "." ELSE out[k].dir,
                             out[k].images[j][3])

\* --------------------------------------------- _get_latest_outputs alone
\* the modification times are 1..MaxTime
MaxTime == 3

RunNames == {"runA", "runB", "runC"}

\* what outputs_dir / "runA" may be, and what the other entries may be
SnapDirs ==
    {FileForDir}
    \cup {Dir(own, <<>>) : own \in Leaves}
    \cup {Dir(EmptyLeaf, <<SubDir("d1", l1)>>) : l1 \in Leaves}
    \cup {Dir(EmptyLeaf, <<SubDir("d1", ImageLeaf("object")), SubDir("d2", l2)>>) :
             l2 \in Leaves}

OtherDirs == {FileForDir, Dir(ImageLeaf("object"), <<>>)}

\* the entries of the output root
EntryNames(rootState) == {rootState.entries[k].name : k \in DOMAIN rootState.entries}

\* outputs_dir / name in the output root
FsOf(rootState, name) ==
    IF \E e \in Range(rootState.entries) : e.name = name
    THEN (CHOOSE e \in Range(rootState.entries) : e.name = name).d
    ELSE NoDir

\* a run whose pipeline stream is about to end, and an output root without
\* entries
SnapInit ==
    /\ WsInit /\ CapIdle /\ SmIdle
    /\ tpc = "next"
    /\ nrec = 0
    /\ current_agent = "none"
    /\ current_tool = "none"
    /\ current_run_id = "none"
    /\ root \in {NoRoot, [NoRoot EXCEPT !.kind = "file"], Root(<<>>)}
    /\ fs = NoDir
    /\ part = NoPart
    /\ pre = NoLocals
    /\ out = <<>>
    /\ seen = {}

\* a tool of some run, or anything else, has written outputs_dir / name
\* (mcp_server/server.py lines 217-233, 592-604 and 806-807): a new entry,
\* listed by iterdir() after the entries there are, with the modification
\* time it has when the stream ends
EntryWritten(name, mtime, d) ==
    /\ UNCHANGED <<wsVars, capVars, smVars>>
    /\ tpc = "next"
    /\ root.kind = "dir"
    /\ name \notin EntryNames(root)
    /\ d \in IF name = "runA" THEN SnapDirs ELSE OtherDirs
    /\ root' = Root(Append(root.entries, Entry(name, mtime, d)))
    /\ fs' = FsOf(root', "runA")
    /\ UNCHANGED <<tpc, nrec, current_agent, current_tool, current_run_id,
                   part, pre, out, seen>>

SnapNext ==
    \/ \E name \in RunNames, mtime \in 1..MaxTime, d \in SnapDirs \cup OtherDirs :
           EntryWritten(name, mtime, d)
    \/ StreamEnd

SpecSnapshot == SnapInit /\ [][SnapNext]_vars

\* the directories among the entries of outputs_dir
TopDirs(rootState) == {e \in Range(rootState.entries) : IsRunDir(e)}

\* C23: the snapshot of a complete event is the result for a top-level
\* directory of outputs_dir whose modification time no other top-level
\* directory exceeds, wherever it is listed; it is the empty result when
\* outputs_dir is missing or holds no directory.
C23_SnapshotOfLatestRun ==
    tpc = "ended" =>
        LET data == out[1].snapshot
        IN  /\ out[1].type = "complete"
            /\ IF root.kind = "missing" \/ TopDirs(root) = {}
               THEN data = EmptySnapshot
               ELSE \E e \in TopDirs(root) :
                       /\ \A x \in TopDirs(root) : x.mtime <= e.mtime
                       /\ data.run_id = e.name
                       /\ data = LatestOf(e.name, e.d)

\* three run directories, the latest of them listed second, and its
\* snapshot taken
C23_Witness ==
    /\ tpc = "ended"
    /\ Len(root.entries) = 3
    /\ \A k \in 1..3 : IsRunDir(root.entries[k])
    /\ root.entries[2].mtime > root.entries[1].mtime
    /\ root.entries[2].mtime > root.entries[3].mtime
    /\ out[1].snapshot.run_id = root.entries[2].name

\* the files the URLs of a sequence name, as <<directory segment, file>>
UrlSet(images) == {images[k] : k \in DOMAIN images}

\* the URLs of all image_ready events of a scan
ScanUrls(events) ==
    UNION {UrlSet(events[k].images) : k \in OfType(events, "image_ready")}

\* C24: when the snapshot is taken of outputs_dir / "runA", it lists the
\* URLs that the image_ready events of a scan of "runA" list, and it holds a
\* gauge dataset for exactly the directories the scan sends a gauge_data
\* event for.
C24_SnapshotEqualsScan ==
    (tpc = "ended" /\ out[1].snapshot.run_id = "runA") =>
        LET data == out[1].snapshot
            scan == CheckNewOutputs(fs, "runA").events
        IN  /\ UrlSet(data.images) = ScanUrls(scan)
            /\ Len(data.gauges) = Cardinality(OfType(scan, "gauge_data"))
            /\ \A k \in OfType(scan, "gauge_data") :
                   \E g \in DOMAIN data.gauges :
                       data.gauges[g].date
                           = IF fs.subdirs # <<>> THEN scan[k].dir
                             ELSE FixedLabel

\* ------------------------------------------------------------ SessionManager
\* the session ids callers send
CallerIds == {"abc", "xyz"}

\* line 33: f"session_{uuid.uuid4().hex[:12]}", a fresh id for each call
FreshId(t) == [m1 |-> "session_1", m2 |-> "session_2", m3 |-> "session_3"][t]

Suspended == {t \in SmTasks : smPc[t] = "create"}

\* every call takes the path of lines 32-45
KnownNever(tbl, session_id) == FALSE

\* line 28: session_id and session_id in self.sessions
Known(tbl, session_id) == session_id # "none" /\ session_id \in DOMAIN tbl

\* get_or_create_session is called, lines 21-36: it returns at line 29, or
\* runs up to the await of create_session
GetOrCreateSession(t, session_id) ==
    /\ UNCHANGED <<wsVars, capVars, trVars>>
    /\ smPc[t] = "idle"
    /\ smArg' = [smArg EXCEPT ![t] = session_id]
    /\ smOverlap' = [smOverlap EXCEPT ![t] = Suspended # {}]
    /\ IF Known(sessions, session_id)
       THEN /\ smPc' = [smPc EXCEPT ![t] = "done"]
            /\ smRet' = [smRet EXCEPT ![t] = sessions[session_id]]
            /\ smSid' = [smSid EXCEPT ![t] = session_id]
       ELSE /\ smPc' = [smPc EXCEPT ![t] = "create"]
            /\ smSid' = [smSid EXCEPT ![t] = IF session_id = "none"
                                              THEN FreshId(t) ELSE session_id]
            /\ UNCHANGED smRet
    /\ smHad' = [smHad EXCEPT ![t] = IF session_id \in DOMAIN sessions
                                      THEN sessions[session_id] ELSE 0]
    /\ UNCHANGED <<sessions, created, smMade, smWrote>>

\* create_session returns, lines 36-45: the session is stored under the local
\* session_id and returned
CreateDone(t) ==
    /\ UNCHANGED <<wsVars, capVars, trVars>>
    /\ smPc[t] = "create"
    /\ created' = created + 1
    /\ sessions' = PutKey(sessions, smSid[t], created + 1)
    /\ smRet' = [smRet EXCEPT ![t] = created + 1]
    /\ smMade' = [smMade EXCEPT ![t] = 1]
    /\ smWrote' = [smWrote EXCEPT ![t] = TRUE]
    /\ smPc' = [smPc EXCEPT ![t] = "done"]
    /\ UNCHANGED <<smArg, smSid, smHad, smOverlap>>

\* create_session raises, line 36: the exception leaves the call
CreateFail(t) ==
    /\ UNCHANGED <<wsVars, capVars, trVars>>
    /\ smPc[t] = "create"
    /\ smPc' = [smPc EXCEPT ![t] = "failed"]
    /\ UNCHANGED <<sessions, created, smArg, smSid, smRet, smHad, smMade,
                   smWrote, smOverlap>>

SmNext ==
    \/ \E t \in SmTasks, session_id \in CallerIds \cup {"none"} :
           GetOrCreateSession(t, session_id)
    \/ \E t \in SmTasks : CreateDone(t)
    \/ \E t \in SmTasks : CreateFail(t)

SmInit == WsInit /\ CapIdle /\ TrIdle /\ SmIdle

SpecSessions == SmInit /\ [][SmNext]_vars

\* the calls that have returned a session
Returned == {t \in SmTasks : smPc[t] = "done"}

\* no call so far has started while another one was suspended
NoOverlap == \A t \in SmTasks : ~smOverlap[t]

\* C25: as long as no call starts while another is suspended, a call whose
\* id is registered returns the session registered under it, creates no
\* session and does not assign to the table; and two calls with the same id
\* return the same session.
C25_ResumeIsIdempotent ==
    NoOverlap =>
        /\ \A t \in Returned :
               smHad[t] # 0 =>
                   /\ smRet[t] = smHad[t]
                   /\ smMade[t] = 0
                   /\ ~smWrote[t]
                   /\ sessions[smArg[t]] = smHad[t]
        /\ \A t, u \in Returned :
               (smArg[t] # "none" /\ smArg[t] = smArg[u]) => smRet[t] = smRet[u]

\* a call created the session of "abc" and a later call got it back
C25_Witness ==
    /\ NoOverlap
    /\ \E t, u \in Returned :
           /\ t # u
           /\ smArg[t] = "abc" /\ smArg[u] = "abc"
           /\ smMade[t] = 1 /\ smHad[u] # 0
           /\ smRet[u] = smRet[t]

\* C26: in every interleaving of the calls, at most one session is created
\* per caller id, all calls with the same id return the same session, and the
\* table holds under a registered id the session every call with that id
\* returned.
C26_OneSessionPerId ==
    \A id \in CallerIds :
        /\ Cardinality({t \in SmTasks : smArg[t] = id /\ smMade[t] = 1}) <= 1
        /\ \A t, u \in Returned :
               (smArg[t] = id /\ smArg[u] = id) => smRet[t] = smRet[u]
        /\ \A t \in Returned : smArg[t] = id => sessions[id] = smRet[t]

\* ------------------------------------------------- termination of the tasks
\* the steps of the tasks that are started: the pipeline stream yields its
\* next record, ends or raises, an awaited broadcast returns, a sleep ends
CapStep ==
    \/ \E r \in Runs, tool \in Tools : PipeCall(r, tool)
    \/ \E r \in Runs : StartSent(r)
    \/ \E r \in Runs, i \in 1..MaxCalls : PipeReturn(r, i)
    \/ \E r \in Runs : CompleteSent(r)
    \/ \E r \in Runs, cause \in Causes : PipeEnd(r, cause)
    \/ \E r \in Runs : PipeRaise(r)
    \/ \E r \in Runs : FinalSent(r)
    \/ \E i \in 1..MaxCalls : SimStart(i)
    \/ \E i \in 1..MaxCalls : SimWake(i)
    \/ \E i \in 1..MaxCalls : SimTickSent(i)

\* The event loop runs a task that is ready, every awaited broadcast returns
\* and every pipeline stream goes on until it ends or raises; nothing obliges
\* a request to start a run.
CapFairness == WF_vars(CapStep)

\* a run has been started on a session where an earlier run, without tool
\* calls, is over: line 43 of chat.py has created the task and run_agent has
\* reached the pipeline stream
CapStarted ==
    /\ WsInit /\ TrIdle /\ SmIdle
    /\ activeTools = {}
    /\ progressTasks = << >>
    /\ rpc = [r \in Runs |-> IF r = "r1" THEN "next" ELSE "done"]
    /\ rsid = [r \in Runs |-> "s1"]
    /\ rinv = [r \in Runs |-> 0]
    /\ outstanding = [r \in Runs |-> {}]
    /\ invTool = <<>>
    /\ invRun = <<>>
    /\ simPc = <<>>
    /\ simStage = <<>>
    /\ last = NoEvent
    /\ phase = [s \in Sessions |-> [n \in Tools |-> "none"]]
    /\ ilast = <<>>
    /\ nfinal = [r \in Runs |-> IF r = "r1" THEN 0 ELSE 1]

SpecCaptureFair == CapStarted /\ [][CapStep]_vars /\ CapFairness

\* the progress tasks that have not finished
Unfinished == {i \in DOMAIN simPc : simPc[i] \in {"created", "sleeping", "tick_sent"}}

\* every run has ended (run_agent_background has exited) and no progress
\* task is left
Quiet == (\A r \in Runs : rpc[r] = "done") /\ Unfinished = {}

\* C27: when the pipeline streams end or raise and the awaited broadcasts
\* return, the runs eventually end and every progress task eventually
\* finishes, cancelled or at the end of its stages, for good.
C27_TasksTerminate == <>[]Quiet

\* the runs are over; one progress task was cancelled by the return of its
\* tool, another one went through all its stages because its run raised
\* before the tool returned
C27_Witness ==
    /\ Quiet
    /\ \E i, j \in DOMAIN simPc :
           /\ simPc[i] = "done" /\ i \in outstanding[invRun[i]]
           /\ simStage[i] = Len(Stages(invTool[i]))
           /\ simPc[j] = "cancelled"

\* the started runs broadcast to different sessions
SessionsApart ==
    \A r1, r2 \in Runs :
        (r1 # r2 /\ rpc[r1] # "idle" /\ rpc[r2] # "idle") => rsid[r1] # rsid[r2]

\* C28: with every run in a session of its own, the progress task of an
\* invocation whose tool has not returned in its own run is neither
\* cancelled nor over before the last of its stages.
C28_OtherSessionKeepsSimulator ==
    SessionsApart =>
        \A i \in DOMAIN simPc :
            i \in outstanding[invRun[i]] =>
                /\ simPc[i] # "cancelled"
                /\ simPc[i] = "done" => simStage[i] = Len(Stages(invTool[i]))

\* --------------------------------------------- order of delivery, connect
\* C29: the first message a websocket gets is the acknowledgment of its
\* connect.
C29_AckIsFirst ==
    \A c \in Conns :
        received[c] # <<>> => received[c][1].type = "connected"

\* the positions of message m among the messages websocket c got
PositionsOf(c, m) == {k \in DOMAIN received[c] : received[c][k] = m}

\* the events among the messages websocket c got
EventsGot(c) == {m \in Range(received[c]) : m.type # "connected"}

\* C30: two websockets registered under one session got the events that
\* both of them got in the same order.
C30_SameOrderOnAllConnections ==
    \A s \in Sessions :
        \A c1, c2 \in Registered(active, s) :
            \A m, n \in EventsGot(c1) \cap EventsGot(c2) :
                (\E i \in PositionsOf(c1, m), j \in PositionsOf(c1, n) : i < j)
                => ~(\E k \in PositionsOf(c2, n), l \in PositionsOf(c2, m) : k < l)
=============================================================================
